---- MODULE Spec2Model ----
(***************************************************************************)
(* Model of the BOLT-3 channel core (src/src/bolt/channel.rs): the state   *)
(* held by `Core` and by the enclosing `Channel`, the per-message          *)
(* transitions of `Core::update_from_peer`, and the two message composers  *)
(* `compose_open_channel` / `compose_accept_channel`.                      *)
(*                                                                         *)
(* u64 values are modelled by unsigned words of WordBits bits, so that the *)
(* products `funding_satoshis * 1000` stay inside TLC's integers while the *)
(* overflow and underflow cases of the source arithmetic remain reachable. *)
(* An arithmetic overflow has the two outcomes a Rust build can produce:   *)
(* a panic (overflow checks on) or the wrapped value (overflow checks off).*)
(***************************************************************************)
EXTENDS Integers, Sequences, FiniteSets, TLC

\* ------------------------------------------------------------------ bounds
WordBits == 13
MaxSigs == 2

Word == 2 ^ WordBits

\* ------------------------------------------------------------ value domains
Lifecycle ==
    {"Initial", "Proposed", "Accepted", "Funding", "Funded", "Locked",
     "Active", "Reestablishing"}

LifecycleOrder ==
    [s \in Lifecycle |->
        CASE s = "Initial" -> 0
          [] s = "Proposed" -> 1
          [] s = "Accepted" -> 2
          [] s = "Funding" -> 3
          [] s = "Funded" -> 4
          [] s = "Locked" -> 5
          [] s = "Active" -> 6
          [] s = "Reestablishing" -> 7]

Inbound == "Inbound"
Outbount == "Outbount"

TempChannelIds == {1, 2}
ChainHashes == {"mainnet"}
PeerChainHashes == {"mainnet", "testnet"}
FundingSats == {2, 9}
PushMsats == {0, 500, 3000}
Delays == {2}
Txids == {4}
OutputIndexes == {0, 1}
ChannelIds == {5}
Signatures == {"sigA", "sigB"}

dumb_pubkey == 0

\* RemoteKeyset::dumb_default(): every key is the dumb key.
RemoteKeyset_dumb_default ==
    [funding_pubkey |-> dumb_pubkey,
     revocation_basepoint |-> dumb_pubkey,
     payment_basepoint |-> dumb_pubkey,
     delayed_payment_basepoint |-> dumb_pubkey,
     htlc_basepoint |-> dumb_pubkey,
     first_per_commitment_point |-> dumb_pubkey]

\* A key set whose six keys are pairwise different: base+1 .. base+6.
Keyset(base) ==
    [funding_pubkey |-> base + 1,
     revocation_basepoint |-> base + 2,
     payment_basepoint |-> base + 3,
     delayed_payment_basepoint |-> base + 4,
     htlc_basepoint |-> base + 5,
     first_per_commitment_point |-> base + 6]

LocalKeyset_dumb_default == RemoteKeyset_dumb_default

\* Key material a peer can put into open_channel / accept_channel.
PeerKeys == {Keyset(30)}

\* The (policy, common_params, local_params, local_keys) arguments a caller
\* passes to Channel::with and to compose_open_channel.
LocalConfigs ==
    {[policy |-> [to_self_delay_max |-> 1, minimum_depth |-> 3],
      common_params |-> [feerate_per_kw |-> 0, announce_channel |-> FALSE],
      local_params |-> [to_self_delay |-> 1],
      local_keys |-> Keyset(10)],
     [policy |-> [to_self_delay_max |-> 2, minimum_depth |-> 1],
      common_params |-> [feerate_per_kw |-> 3, announce_channel |-> TRUE],
      local_params |-> [to_self_delay |-> 2],
      local_keys |-> Keyset(20)]}

PeerParams_default == [to_self_delay |-> 0]

\* ------------------------------------------------------------- ActiveChannelId
Temporary(id) == [tag |-> "Temporary", id |-> id]
Final(id) == [tag |-> "Final", id |-> id]

RECURSIVE Xor(_, _)
Xor(a, b) ==
    IF a = 0 THEN b
    ELSE IF b = 0 THEN a
    ELSE (((a % 2) + (b % 2)) % 2) + 2 * Xor(a \div 2, b \div 2)

\* ChannelId::with: the funding txid XOR-ed with the funding output index.
ChannelId_with(funding_txid, funding_output_index) ==
    Xor(funding_txid, funding_output_index)

ActiveChannelId_with(funding_txid, funding_output_index) ==
    Final(ChannelId_with(funding_txid, funding_output_index))

\* ActiveChannelId::temp_channel_id(): Some(id) for Temporary, None for Final.
temp_channel_id(c) ==
    IF c.active_channel_id.tag = "Temporary"
    THEN [some |-> TRUE, id |-> c.active_channel_id.id]
    ELSE [some |-> FALSE, id |-> 0]

\* ------------------------------------------------------------------ messages
OpenChannelMsg(h, t, f, p, d, k) ==
    [kind |-> "OpenChannel",
     chain_hash |-> h,
     temporary_channel_id |-> t,
     funding_satoshis |-> f,
     push_msat |-> p,
     to_self_delay |-> d,
     funding_pubkey |-> k.funding_pubkey,
     revocation_basepoint |-> k.revocation_basepoint,
     payment_point |-> k.payment_basepoint,
     delayed_payment_basepoint |-> k.delayed_payment_basepoint,
     htlc_basepoint |-> k.htlc_basepoint,
     first_per_commitment_point |-> k.first_per_commitment_point]

OpenChannelMsgs ==
    {OpenChannelMsg(h, t, f, p, d, k) :
        h \in PeerChainHashes, t \in TempChannelIds, f \in FundingSats, p \in PushMsats,
        d \in Delays, k \in PeerKeys}

AcceptChannelMsg(t, d, k) ==
    [kind |-> "AcceptChannel",
     temporary_channel_id |-> t,
     to_self_delay |-> d,
     funding_pubkey |-> k.funding_pubkey,
     revocation_basepoint |-> k.revocation_basepoint,
     payment_point |-> k.payment_basepoint,
     delayed_payment_basepoint |-> k.delayed_payment_basepoint,
     htlc_basepoint |-> k.htlc_basepoint,
     first_per_commitment_point |-> k.first_per_commitment_point]

AcceptChannelMsgs ==
    {AcceptChannelMsg(t, d, k) :
        t \in TempChannelIds, d \in Delays, k \in PeerKeys}

FundingCreatedMsgs ==
    [kind : {"FundingCreated"}, funding_txid : Txids,
     funding_output_index : OutputIndexes]

FundingSignedMsgs ==
    [kind : {"FundingSigned"}, channel_id : ChannelIds,
     signature : Signatures]

FundingLockedMsgs == [kind : {"FundingLocked"}]

\* The message kinds whose arm in update_from_peer is empty, and UpdateFee,
\* which has no arm of its own and falls into the `_` arm.
OtherKinds ==
    {"Shutdown", "ClosingSigned", "UpdateAddHtlc", "UpdateFulfillHtlc",
     "UpdateFailHtlc", "UpdateFailMalformedHtlc", "CommitmentSigned",
     "RevokeAndAck", "ChannelReestablish", "UpdateFee"}

OtherMsgs == [kind : OtherKinds]

NoOut == [kind |-> "None"]

\* ------------------------------------------------------------ u64 arithmetic
\* Outcomes of `a * b` on unsigned words: the exact product when it fits,
\* otherwise a panic or the wrapped product.
u64_mul(a, b) ==
    IF a * b < Word
    THEN {[ok |-> TRUE, v |-> a * b]}
    ELSE {[ok |-> FALSE, v |-> 0], [ok |-> TRUE, v |-> (a * b) % Word]}

\* Outcomes of `a - b` on unsigned words.
u64_sub(a, b) ==
    IF a >= b
    THEN {[ok |-> TRUE, v |-> a - b]}
    ELSE {[ok |-> FALSE, v |-> 0], [ok |-> TRUE, v |-> (a - b) + Word]}

\* Outcomes of `funding_sat * 1000 - push_msat`, evaluated left to right.
funding_minus_push(funding_sat, push_msat) ==
    UNION {IF pr.ok THEN u64_sub(pr.v, push_msat) ELSE {pr} :
              pr \in u64_mul(funding_sat, 1000)}

\* ---------------------------------------------------------------- policy
\* Policy::validate_inbound: the remote parameters proposed by open_channel
\* are accepted when they are inside the policy bounds.
validate_inbound(policy, open_channel) ==
    IF open_channel.to_self_delay > policy.to_self_delay_max
    THEN [ok |-> FALSE, params |-> PeerParams_default]
    ELSE [ok |-> TRUE,
          params |-> [to_self_delay |-> open_channel.to_self_delay]]

\* Policy::confirm_outbound: the same bounds applied to accept_channel.
confirm_outbound(policy, local_params, accept_channel) ==
    IF accept_channel.to_self_delay > policy.to_self_delay_max
    THEN [ok |-> FALSE, params |-> PeerParams_default]
    ELSE [ok |-> TRUE,
          params |-> [to_self_delay |-> accept_channel.to_self_delay]]

\* ------------------------------------------------------------------- Core
\* Core::default()
Core_default ==
    [stage |-> "Initial",
     chain_hash |-> "default",
     active_channel_id |-> Temporary(0),
     funding_outpoint |-> [txid |-> 0, vout |-> 0],
     local_amount_msat |-> 0,
     remote_amount_msat |-> 0,
     commitment_number |-> 0,
     commitment_sigs |-> << >>,
     policy |-> [to_self_delay_max |-> 0, minimum_depth |-> 0],
     common_params |-> [feerate_per_kw |-> 0, announce_channel |-> FALSE],
     local_params |-> PeerParams_default,
     remote_params |-> PeerParams_default,
     local_keys |-> LocalKeyset_dumb_default,
     remote_keys |-> RemoteKeyset_dumb_default,
     remote_per_commitment_point |-> dumb_pubkey,
     local_per_commitment_point |-> dumb_pubkey,
     direction |-> Outbount]

set_temp_channel_id(c, temp) ==
    [c EXCEPT !.active_channel_id = Temporary(temp)]

set_chain_hash(c, chain_hash) == [c EXCEPT !.chain_hash = chain_hash]

set_policy(c, policy) == [c EXCEPT !.policy = policy]

set_common_params(c, params) == [c EXCEPT !.common_params = params]

set_local_params(c, params) == [c EXCEPT !.local_params = params]

set_local_keys(c, keys) == [c EXCEPT !.local_keys = keys]

\* Variant of Channel::with that starts from a final channel id.
Channel_with_final_id(temp, chain_hash, cfg) ==
    set_local_keys(
        set_local_params(
            set_common_params(
                set_policy(
                    set_chain_hash(
                        [Core_default EXCEPT !.active_channel_id = Final(temp)],
                        chain_hash),
                    cfg.policy),
                cfg.common_params),
            cfg.local_params),
        cfg.local_keys)

\* Channel::with: the default core with the six setters applied.
Channel_with(temp, chain_hash, cfg) ==
    set_local_keys(
        set_local_params(
            set_common_params(
                set_policy(
                    set_chain_hash(
                        set_temp_channel_id(Core_default, temp),
                        chain_hash),
                    cfg.policy),
                cfg.common_params),
            cfg.local_params),
        cfg.local_keys)

\* The result of one call: the core as the call leaves it, the kind of result
\* ("Ok", an error kind, or "Panic") and the value returned.
Outcome(c, result, out) == [core |-> c, result |-> result, out |-> out]

\* ------------------------------------------------- Core::update_from_peer
\* Variant of the OpenChannel arm that takes over the chain of the message.
OpenChannel_arm_adopting_chain(c, open_channel) ==
    LET c1 == [c EXCEPT
                  !.stage = "Proposed",
                  !.direction = Inbound,
                  !.chain_hash = open_channel.chain_hash,
                  !.active_channel_id =
                      Temporary(open_channel.temporary_channel_id)]
    IN  {IF ~a.ok
         THEN Outcome(c1, "Panic", NoOut)
         ELSE LET c2 == [c1 EXCEPT
                            !.remote_amount_msat = a.v,
                            !.local_amount_msat = open_channel.push_msat]
                  v == validate_inbound(c2.policy, open_channel)
              IN  IF ~v.ok
                  THEN Outcome(c2, "PolicyViolation", NoOut)
                  ELSE Outcome(
                         [c2 EXCEPT
                            !.remote_params = v.params,
                            !.remote_keys.funding_pubkey =
                                open_channel.funding_pubkey,
                            !.remote_keys.payment_basepoint =
                                open_channel.payment_point,
                            !.remote_keys.revocation_basepoint =
                                open_channel.revocation_basepoint,
                            !.remote_keys.delayed_payment_basepoint =
                                open_channel.delayed_payment_basepoint,
                            !.remote_keys.first_per_commitment_point =
                                open_channel.first_per_commitment_point,
                            !.remote_per_commitment_point =
                                open_channel.first_per_commitment_point],
                         "Ok", NoOut) :
         a \in funding_minus_push(open_channel.funding_satoshis,
                                  open_channel.push_msat)}

\* Messages::OpenChannel arm.  The fields are assigned in source order: the
\* stage, direction, id and amounts are written before the policy is asked.
OpenChannel_arm(c, open_channel) ==
    LET c1 == [c EXCEPT
                  !.stage = "Proposed",
                  !.direction = Inbound,
                  !.active_channel_id =
                      Temporary(open_channel.temporary_channel_id)]
    IN  {IF ~a.ok
         THEN Outcome(c1, "Panic", NoOut)
         ELSE LET c2 == [c1 EXCEPT
                            !.remote_amount_msat = a.v,
                            !.local_amount_msat = open_channel.push_msat]
                  v == validate_inbound(c2.policy, open_channel)
              IN  IF ~v.ok
                  THEN Outcome(c2, "PolicyViolation", NoOut)
                  ELSE Outcome(
                         [c2 EXCEPT
                            !.remote_params = v.params,
                            !.remote_keys.funding_pubkey =
                                open_channel.funding_pubkey,
                            !.remote_keys.payment_basepoint =
                                open_channel.payment_point,
                            !.remote_keys.revocation_basepoint =
                                open_channel.revocation_basepoint,
                            !.remote_keys.delayed_payment_basepoint =
                                open_channel.delayed_payment_basepoint,
                            !.remote_keys.first_per_commitment_point =
                                open_channel.first_per_commitment_point,
                            !.remote_per_commitment_point =
                                open_channel.first_per_commitment_point],
                         "Ok", NoOut) :
         a \in funding_minus_push(open_channel.funding_satoshis,
                                  open_channel.push_msat)}

\* Messages::AcceptChannel arm.
AcceptChannel_arm(c, accept_channel) ==
    LET c1 == [c EXCEPT !.stage = "Accepted"]
        v == confirm_outbound(c1.policy, c1.local_params, accept_channel)
    IN  IF ~v.ok
        THEN {Outcome(c1, "PolicyViolation", NoOut)}
        ELSE {Outcome(
                [c1 EXCEPT
                   !.remote_params = v.params,
                   !.remote_keys.funding_pubkey =
                       accept_channel.funding_pubkey,
                   !.remote_keys.payment_basepoint =
                       accept_channel.payment_point,
                   !.remote_keys.revocation_basepoint =
                       accept_channel.revocation_basepoint,
                   !.remote_keys.delayed_payment_basepoint =
                       accept_channel.delayed_payment_basepoint,
                   !.remote_keys.first_per_commitment_point =
                       accept_channel.first_per_commitment_point,
                   !.remote_per_commitment_point =
                       accept_channel.first_per_commitment_point],
                "Ok", NoOut)}

\* Variant of the FundingCreated arm that assigns the final id only once: a
\* core that already holds a final id keeps it.
FundingCreated_arm_assign_once(c, funding_created) ==
    {Outcome(
        [c EXCEPT
           !.stage = "Funding",
           !.active_channel_id =
               IF @.tag = "Final" THEN @
               ELSE ActiveChannelId_with(
                        funding_created.funding_txid,
                        funding_created.funding_output_index)],
        "Ok", NoOut)}

\* Messages::FundingCreated arm.
FundingCreated_arm(c, funding_created) ==
    {Outcome(
        [c EXCEPT
           !.stage = "Funding",
           !.active_channel_id =
               ActiveChannelId_with(funding_created.funding_txid,
                                    funding_created.funding_output_index)],
        "Ok", NoOut)}

\* Variant of the FundingSigned arm that keeps only the latest signature.
FundingSigned_arm_latest(c, funding_signed) ==
    {Outcome(
        [c EXCEPT
           !.stage = "Funded",
           !.active_channel_id = Final(funding_signed.channel_id),
           !.commitment_sigs = <<funding_signed.signature>>],
        "Ok", NoOut)}

\* Messages::FundingSigned arm.
FundingSigned_arm(c, funding_signed) ==
    {Outcome(
        [c EXCEPT
           !.stage = "Funded",
           !.active_channel_id = Final(funding_signed.channel_id),
           !.commitment_sigs = Append(@, funding_signed.signature)],
        "Ok", NoOut)}

\* Variant of the FundingLocked arm that moves a funded channel to Active and
\* leaves any other stage alone.
FundingLocked_arm_active(c, funding_locked) ==
    {Outcome([c EXCEPT !.stage = IF @ = "Funded" THEN "Active" ELSE @],
             "Ok", NoOut)}

\* Messages::FundingLocked arm.
FundingLocked_arm(c, funding_locked) ==
    {Outcome([c EXCEPT !.stage = "Locked"], "Ok", NoOut)}

\* Variant of the empty arms in which channel_reestablish moves the channel
\* to the Reestablishing stage.
Other_arm_reestablishing(c, message) ==
    {Outcome(
        [c EXCEPT !.stage = IF message.kind = "ChannelReestablish"
                            THEN "Reestablishing" ELSE @],
        "Ok", NoOut)}

\* The empty arms and the `_` arm.
Other_arm(c, message) == {Outcome(c, "Ok", NoOut)}

update_from_peer(c, message) ==
    CASE message.kind = "OpenChannel" -> OpenChannel_arm(c, message)
      [] message.kind = "AcceptChannel" -> AcceptChannel_arm(c, message)
      [] message.kind = "FundingCreated" -> FundingCreated_arm(c, message)
      [] message.kind = "FundingSigned" -> FundingSigned_arm(c, message)
      [] message.kind = "FundingLocked" -> FundingLocked_arm(c, message)
      [] OTHER -> Other_arm(c, message)

\* ------------------------------------------------------------- composers
LifecycleMismatch(c) ==
    [kind |-> "LifecycleMismatch",
     current |-> c.stage,
     required |-> {"Initial", "Reestablishing"}]

\* The stage check shared by the two composers.
compose_allowed(c) ==
    ~(c.stage # "Initial" /\ c.stage # "Reestablishing")

\* Core::compose_open_channel
Core_compose_open_channel(c, funding_sat, push_msat, policy, common_params, local_params, local_keyset) ==
    IF ~compose_allowed(c)
    THEN {Outcome(c, "LifecycleMismatch", LifecycleMismatch(c))}
    ELSE
      LET c1 == [c EXCEPT
                    !.direction = Outbount,
                    !.policy = policy,
                    !.common_params = common_params,
                    !.local_params = local_params,
                    !.local_keys = local_keyset]
      IN  {IF ~a.ok
           THEN Outcome(c1, "Panic", NoOut)
           ELSE LET c2 == [c1 EXCEPT
                              !.local_amount_msat = a.v,
                              !.remote_amount_msat = push_msat]
                    temp == temp_channel_id(c2)
                IN  IF ~temp.some
                    THEN Outcome(c2, "Panic", NoOut)
                    ELSE Outcome(c2, "Ok",
                           [kind |-> "OpenChannel",
                            chain_hash |-> c2.chain_hash,
                            temporary_channel_id |-> temp.id,
                            funding_satoshis |-> funding_sat,
                            push_msat |-> push_msat,
                            feerate_per_kw |-> common_params.feerate_per_kw,
                            to_self_delay |-> local_params.to_self_delay,
                            funding_pubkey |-> local_keyset.funding_pubkey,
                            revocation_basepoint |->
                                local_keyset.revocation_basepoint,
                            payment_point |-> local_keyset.payment_basepoint,
                            delayed_payment_basepoint |->
                                local_keyset.delayed_payment_basepoint,
                            htlc_basepoint |-> local_keyset.htlc_basepoint,
                            first_per_commitment_point |->
                                local_keyset.first_per_commitment_point,
                            channel_flags |->
                                IF common_params.announce_channel
                                THEN 1 ELSE 0]) :
           a \in funding_minus_push(funding_sat, push_msat)}

\* Core::compose_accept_channel
Core_compose_accept_channel(c) ==
    IF ~compose_allowed(c)
    THEN {Outcome(c, "LifecycleMismatch", LifecycleMismatch(c))}
    ELSE
      LET temp == temp_channel_id(c)
      IN  IF ~temp.some
          THEN {Outcome(c, "Panic", NoOut)}
          ELSE {Outcome(c, "Ok",
                  [kind |-> "AcceptChannel",
                   temporary_channel_id |-> temp.id,
                   minimum_depth |-> c.policy.minimum_depth,
                   to_self_delay |-> c.local_params.to_self_delay,
                   funding_pubkey |-> c.local_keys.funding_pubkey,
                   revocation_basepoint |->
                       c.local_keys.revocation_basepoint,
                   payment_point |-> c.local_keys.payment_basepoint,
                   delayed_payment_basepoint |->
                       c.local_keys.delayed_payment_basepoint,
                   htlc_basepoint |-> c.local_keys.htlc_basepoint,
                   first_per_commitment_point |->
                       c.local_keys.first_per_commitment_point])}

\* Channel::set_funding_amount
set_funding_amount(amount) == amount

\* ------------------------------------------------------------------ state
VARIABLES
    core,             \* the Core of the channel
    funding_amount,   \* the funding amount held by the enclosing Channel
    last,             \* the latest call: operation, argument, result, value
    negotiated,       \* funding_satoshis of the latest successful open
    tx_graph,         \* the transaction template the caller hands to apply
    pure              \* the latest call of a function that has no state

vars == <<core, funding_amount, last, negotiated, tx_graph, pure>>

\* channel::TxGraph before any apply: the commitment part of the template.
TxGraph_default ==
    [cmt_version |-> 0, cmt_locktime |-> 0, cmt_sequence |-> 0,
     cmt_outs |-> << >>]

NoPure == [fn |-> "none"]

NoCall == [op |-> "with", msg |-> [kind |-> "None"], result |-> "Ok",
           out |-> NoOut]

NotNegotiated == [set |-> FALSE, funding_satoshis |-> 0]

Init ==
    /\ \E temp \in TempChannelIds, chain_hash \in ChainHashes,
          cfg \in LocalConfigs :
          core = Channel_with(temp, chain_hash, cfg)
    /\ funding_amount = 0
    /\ last = NoCall
    /\ negotiated = NotNegotiated
    /\ tx_graph = TxGraph_default
    /\ pure = NoPure

\* A panic unwinds the caller: no further call reaches the channel.
Running == last.result # "Panic"

Called(op, msg, o) ==
    /\ core' = o.core
    /\ last' = [op |-> op, msg |-> msg, result |-> o.result, out |-> o.out]
    /\ UNCHANGED <<tx_graph, pure>>

UpdateFromPeer(msgs) ==
    /\ Running
    /\ \E message \in msgs :
          \E o \in update_from_peer(core, message) :
             /\ Called("update_from_peer", message, o)
             /\ negotiated' =
                   IF message.kind = "OpenChannel" /\ o.result = "Ok"
                   THEN [set |-> TRUE,
                         funding_satoshis |-> message.funding_satoshis]
                   ELSE negotiated
    /\ UNCHANGED funding_amount

ReceiveOpenChannel == UpdateFromPeer(OpenChannelMsgs)

ReceiveAcceptChannel == UpdateFromPeer(AcceptChannelMsgs)

ReceiveFundingCreated == UpdateFromPeer(FundingCreatedMsgs)

ReceiveFundingSigned ==
    /\ Len(core.commitment_sigs) < MaxSigs
    /\ UpdateFromPeer(FundingSignedMsgs)

ReceiveFundingLocked == UpdateFromPeer(FundingLockedMsgs)

ReceiveOther == UpdateFromPeer(OtherMsgs)

\* Channel::compose_open_channel: the funding amount is set, then the core
\* composes the message.
ComposeOpenChannel ==
    /\ Running
    /\ \E funding_sat \in FundingSats, push_msat \in PushMsats,
          cfg \in LocalConfigs :
          /\ funding_amount' = set_funding_amount(funding_sat)
          /\ \E o \in Core_compose_open_channel(
                         core, funding_sat, push_msat, cfg.policy,
                         cfg.common_params, cfg.local_params,
                         cfg.local_keys) :
                /\ Called("compose_open_channel",
                          [kind |-> "ComposeOpenChannel",
                           funding_sat |-> funding_sat,
                           push_msat |-> push_msat], o)
                /\ negotiated' =
                      IF o.result = "Ok"
                      THEN [set |-> TRUE, funding_satoshis |-> funding_sat]
                      ELSE negotiated

\* Channel::compose_accept_channel
ComposeAcceptChannel ==
    /\ Running
    /\ \E o \in Core_compose_accept_channel(core) :
          Called("compose_accept_channel",
                 [kind |-> "ComposeAcceptChannel"], o)
    /\ UNCHANGED <<funding_amount, negotiated>>

Next ==
    \/ ReceiveOpenChannel
    \/ ReceiveAcceptChannel
    \/ ReceiveFundingCreated
    \/ ReceiveFundingSigned
    \/ ReceiveFundingLocked
    \/ ReceiveOther
    \/ ComposeOpenChannel
    \/ ComposeAcceptChannel

Spec == Init /\ [][Next]_vars

\* ================================================================== claims
ComposeOps == {"compose_open_channel", "compose_accept_channel"}

ComposedKind(op) ==
    IF op = "compose_open_channel" THEN "OpenChannel" ELSE "AcceptChannel"

\* C1: a compose call fails with LifecycleMismatch if and only if the stage
\* before the call is neither Initial nor Reestablishing, and in stage
\* Initial or Reestablishing it returns the composed message.
C1_ComposeFailsIffStageMismatch ==
    [][last'.op \in ComposeOps =>
          /\ (last'.result = "LifecycleMismatch")
                <=> (core.stage \notin {"Initial", "Reestablishing"})
          /\ core.stage \in {"Initial", "Reestablishing"} =>
                /\ last'.result = "Ok"
                /\ last'.out.kind = ComposedKind(last'.op)]_vars

C3_FailedUpdateLeavesCoreUnchanged ==
    [][(last'.op = "update_from_peer" /\ last'.result = "PolicyViolation") =>
          core' = core]_vars

\* C4: update_from_peer never moves the stage backward along the chain
\* Initial, Proposed, Accepted, Funding, Funded, Locked, Active,
\* Reestablishing.
C4_StageMovesForward ==
    [][last'.op = "update_from_peer" =>
          LifecycleOrder[core'.stage] >= LifecycleOrder[core.stage]]_vars

\* C5: once the active channel id is Final it never becomes Temporary again
\* and never changes to a different Final id.
C5_FinalIdNeverChanges ==
    [][core.active_channel_id.tag = "Final" =>
          core'.active_channel_id = core.active_channel_id]_vars

\* C6: after a successful open (received or composed) and after every later
\* successful operation, local_amount_msat + remote_amount_msat equals
\* funding_satoshis * 1000.
C6_AmountsSumToFunding ==
    (negotiated.set /\ last.result = "Ok") =>
        core.local_amount_msat + core.remote_amount_msat
            = negotiated.funding_satoshis * 1000

ReceivedOk(kind) ==
    /\ last.op = "update_from_peer"
    /\ last.msg.kind = kind
    /\ last.result = "Ok"

\* C7: an open_channel message that passes policy validation sets stage
\* Proposed, direction Inbound, the temporary id of the message,
\* remote_amount_msat = funding_satoshis*1000 - push_msat and
\* local_amount_msat = push_msat.
C7_OpenChannelSetsProposal ==
    ReceivedOk("OpenChannel") =>
        /\ core.stage = "Proposed"
        /\ core.direction = Inbound
        /\ core.active_channel_id = Temporary(last.msg.temporary_channel_id)
        /\ core.remote_amount_msat
              = last.msg.funding_satoshis * 1000 - last.msg.push_msat
        /\ core.local_amount_msat = last.msg.push_msat

StageOfKind(kind, stage) ==
    CASE kind = "OpenChannel" -> "Proposed"
      [] kind = "AcceptChannel" -> "Accepted"
      [] kind = "FundingCreated" -> "Funding"
      [] kind = "FundingSigned" -> "Funded"
      [] kind = "FundingLocked" -> "Locked"
      [] OTHER -> stage

\* C8: the stage after a successful update_from_peer is determined by the
\* message kind alone: Proposed, Accepted, Funding, Funded, Locked for the
\* five negotiation messages, and the stage before the call for any other.
C8_StageDeterminedByKind ==
    [][(last'.op = "update_from_peer" /\ last'.result = "Ok") =>
          core'.stage = StageOfKind(last'.msg.kind, core.stage)]_vars

\* A funding_locked message was received by a channel whose stage had been
\* set to Funded by an earlier funding_signed message.
C8_Witness ==
    /\ ReceivedOk("FundingLocked")
    /\ core.stage = "Locked"
    /\ Len(core.commitment_sigs) > 0

\* C9: after a successful open_channel or accept_channel, the five remote
\* basepoints and the remote first per-commitment point held by the core
\* equal the fields of the message.
C9_RemoteKeysCopied ==
    (ReceivedOk("OpenChannel") \/ ReceivedOk("AcceptChannel")) =>
        /\ core.remote_keys.funding_pubkey = last.msg.funding_pubkey
        /\ core.remote_keys.revocation_basepoint
              = last.msg.revocation_basepoint
        /\ core.remote_keys.payment_basepoint = last.msg.payment_point
        /\ core.remote_keys.delayed_payment_basepoint
              = last.msg.delayed_payment_basepoint
        /\ core.remote_keys.htlc_basepoint = last.msg.htlc_basepoint
        /\ core.remote_keys.first_per_commitment_point
              = last.msg.first_per_commitment_point
        /\ core.remote_per_commitment_point
              = last.msg.first_per_commitment_point

\* C10: after a funding_created message the active channel id is Final and
\* is the id derived from the message's (funding txid, output index) pair,
\* whatever the state before the message was.
C10_FinalIdFromOutpoint ==
    (last.op = "update_from_peer" /\ last.msg.kind = "FundingCreated") =>
        /\ last.result = "Ok"
        /\ core.active_channel_id.tag = "Final"
        /\ core.active_channel_id.id
              = ChannelId_with(last.msg.funding_txid,
                               last.msg.funding_output_index)

\* A funding_created message was received by a channel that already held a
\* final id (a signature had been received before).
C10_Witness ==
    /\ ReceivedOk("FundingCreated")
    /\ core.stage = "Funding"
    /\ Len(core.commitment_sigs) > 0
    /\ core.active_channel_id.tag = "Final"

\* C11: the list of received commitment signatures is append-only: a
\* funding_signed message makes it the previous list followed by the
\* signature of the message, and no other call changes it.
C11_SignaturesAppendOnly ==
    [][IF last'.op = "update_from_peer" /\ last'.msg.kind = "FundingSigned"
       THEN core'.commitment_sigs
               = Append(core.commitment_sigs, last'.msg.signature)
       ELSE core'.commitment_sigs = core.commitment_sigs]_vars

\* A second funding_signed message was received and its signature, which
\* differs from the first one, is the last of the list.
C11_Witness ==
    /\ ReceivedOk("FundingSigned")
    /\ Len(core.commitment_sigs) = 2
    /\ core.commitment_sigs[2] = last.msg.signature
    /\ core.commitment_sigs[1] # core.commitment_sigs[2]

NoEffectKinds ==
    {"Shutdown", "UpdateFee", "UpdateAddHtlc", "UpdateFulfillHtlc",
     "UpdateFailHtlc", "CommitmentSigned", "RevokeAndAck",
     "ChannelReestablish"}

\* C12: update_from_peer with a shutdown, update_fee, update_add_htlc,
\* update_fulfill_htlc, update_fail_htlc, commitment_signed, revoke_and_ack
\* or channel_reestablish message returns success and leaves every Core
\* field unchanged, in every stage.
C12_OtherMessagesHaveNoEffect ==
    [][(last'.op = "update_from_peer" /\ last'.msg.kind \in NoEffectKinds) =>
          (last'.result = "Ok" /\ core' = core)]_vars

\* A channel_reestablish message was received by a funded channel, which is
\* still funded.
C12_Witness ==
    /\ ReceivedOk("ChannelReestablish")
    /\ core.stage = "Funded"
    /\ Len(core.commitment_sigs) > 0

\* ============================================== key derivation and apply
\* Bytes are modelled by ByteBits-bit digits, so that the eight digest bytes
\* read by obscured_commitment_number stay inside TLC's integers; the
\* positions, the byte order and the masks are those of the source.
ByteBits == 2

ByteBase == 2 ^ ByteBits

\* The low n bytes set: 0x00_00_FF_FF_FF_FF_FF_FF for n = 6.
LowBytesMask(n) == 2 ^ (n * ByteBits) - 1

\* Variant of the mask that keeps five bytes only.
LOWER_40_BITS == LowBytesMask(5)

\* const LOWER_48_BITS
LOWER_48_BITS == LowBytesMask(6)

RECURSIVE BitAnd(_, _)
BitAnd(a, b) ==
    IF a = 0 \/ b = 0 THEN 0
    ELSE ((a % 2) * (b % 2)) + 2 * BitAnd(a \div 2, b \div 2)

\* PublicKey::serialize: the parity byte followed by the x coordinate.
serialize(key) == <<2 + (key % 2), key>>

\* The hash engine: every input byte is absorbed in order.
RECURSIVE Absorb(_, _)
Absorb(h, bytes) ==
    IF bytes = << >> THEN h
    ELSE Absorb((h * 31 + Head(bytes) + 1) % 9973, Tail(bytes))

\* sha256::Hash::from_engine: a digest of 32 bytes.
sha256(bytes) ==
    LET h == Absorb(7, bytes)
    IN  [i \in 1..32 |-> ((h \div i) + i * h) % ByteBase]

\* u64::from_be_bytes
RECURSIVE from_be_bytes(_)
from_be_bytes(buf) ==
    IF buf = << >> THEN 0
    ELSE buf[Len(buf)] + ByteBase * from_be_bytes(SubSeq(buf, 1, Len(buf) - 1))

\* Variant of obscured_commitment_number that hashes (local, remote) in
\* either direction.
obscured_commitment_number_fixed_order(c) ==
    LET obscuring_hash ==
            sha256(serialize(c.local_keys.payment_basepoint)
                   \o serialize(c.remote_keys.payment_basepoint))
        buf == SubSeq(obscuring_hash, 25, 32)
        obscuring_factor == BitAnd(from_be_bytes(buf), LOWER_48_BITS)
    IN  Xor(BitAnd(c.commitment_number, LOWER_48_BITS), obscuring_factor)

\* Core::obscured_commitment_number
obscured_commitment_number(c) ==
    LET engine ==
            IF c.direction = Inbound
            THEN serialize(c.remote_keys.payment_basepoint)
                 \o serialize(c.local_keys.payment_basepoint)
            ELSE serialize(c.local_keys.payment_basepoint)
                 \o serialize(c.remote_keys.payment_basepoint)
        obscuring_hash == sha256(engine)
        buf == SubSeq(obscuring_hash, 25, 32)
        obscuring_factor == BitAnd(from_be_bytes(buf), LOWER_48_BITS)
    IN  Xor(BitAnd(c.commitment_number, LOWER_48_BITS), obscuring_factor)

\* Core::refund_fee
refund_fee(c) == (724 * c.common_params.feerate_per_kw) \div 1000

\* The curve group is modelled by the integers modulo a small prime: the
\* point of key k is k + 1, the point at infinity is 0.
GroupOrder == 41

Point(key) == (key + 1) % GroupOrder

\* The scalar of a 32-byte tweak; 0 and GroupOrder are not valid scalars.
RECURSIVE scalar(_)
scalar(digest) ==
    IF digest = << >> THEN 0
    ELSE (digest[Len(digest)]
          + ByteBase * scalar(SubSeq(digest, 1, Len(digest) - 1)))
         % (GroupOrder + 1)

\* PublicKey::mul_assign: fails on an invalid scalar.
mul_assign(key, tweak) ==
    LET t == scalar(tweak)
    IN  IF t = 0 \/ t >= GroupOrder \/ Point(key) = 0
        THEN [ok |-> FALSE, key |-> key]
        ELSE [ok |-> TRUE, key |-> ((Point(key) * t) % GroupOrder) - 1]

\* PublicKey::combine: fails when the sum is the point at infinity.
combine(a, b) ==
    LET sum == (Point(a) + Point(b)) % GroupOrder
    IN  IF sum = 0
        THEN [ok |-> FALSE, key |-> a]
        ELSE [ok |-> TRUE, key |-> sum - 1]

\* Core::revocationpubkey; a failed `expect` is the result with ok = FALSE.
revocationpubkey(c) ==
    LET revocation_tweak ==
            sha256(serialize(c.remote_keys.revocation_basepoint)
                   \o serialize(c.remote_per_commitment_point))
        tweaked_revocation_basepoint ==
            mul_assign(c.remote_keys.revocation_basepoint, revocation_tweak)
        per_commitment_tweak ==
            sha256(serialize(c.remote_per_commitment_point)
                   \o serialize(c.remote_keys.revocation_basepoint))
        tweaked_per_commitment_point ==
            mul_assign(c.remote_per_commitment_point, per_commitment_tweak)
    IN  IF ~tweaked_revocation_basepoint.ok THEN tweaked_revocation_basepoint
        ELSE IF ~tweaked_per_commitment_point.ok
             THEN tweaked_per_commitment_point
        ELSE combine(tweaked_revocation_basepoint.key,
                     tweaked_per_commitment_point.key)

\* ------------------------------------------------------- script generators
OP_IF == 99
OP_ELSE == 103
OP_ENDIF == 104
OP_DROP == 117
OP_CHECKSIG == 172
OP_CHECKMULTISIG == 174
OP_CSV == 178

\* script::Builder::push_int: OP_0, OP_1..OP_16, or a minimal little-endian
\* push of a non-negative number below 2^16.
push_int(n) ==
    IF n = 0 THEN <<0>>
    ELSE IF n <= 16 THEN <<80 + n>>
    ELSE IF n < 128 THEN <<1, n>>
    ELSE IF n < 32768 THEN <<2, n % 256, n \div 256>>
    ELSE <<3, n % 256, n \div 256, 0>>

\* script::Builder::push_key: a push of the 33-byte compressed key.
push_key(key) == <<33>> \o serialize(key)

\* Lexicographic order on byte strings.
RECURSIVE LexLeq(_, _)
LexLeq(a, b) ==
    IF a = << >> THEN TRUE
    ELSE IF b = << >> THEN FALSE
    ELSE IF Head(a) # Head(b) THEN Head(a) < Head(b)
    ELSE LexLeq(Tail(a), Tail(b))

\* LexOrder::lex_ordered on a vector of two keys.
lex_ordered(pk) ==
    IF LexLeq(serialize(pk[1]), serialize(pk[2])) THEN pk ELSE <<pk[2], pk[1]>>

\* Variant of ln_funding that keeps the keys in argument order.
LockScript_ln_funding_unsorted(local_pubkey, remote_pubkey) ==
    LET pk == <<local_pubkey, remote_pubkey>>
    IN  push_int(2) \o push_key(pk[1]) \o push_key(pk[2]) \o push_int(2)
        \o <<OP_CHECKMULTISIG>>

\* LockScript::ln_funding
LockScript_ln_funding(local_pubkey, remote_pubkey) ==
    LET pk == lex_ordered(<<local_pubkey, remote_pubkey>>)
    IN  push_int(2) \o push_key(pk[1]) \o push_key(pk[2]) \o push_int(2)
        \o <<OP_CHECKMULTISIG>>

\* LockScript::ln_to_local
LockScript_ln_to_local(revocationkey, local_delayedpubkey, to_self_delay) ==
    <<OP_IF>> \o push_key(revocationkey) \o <<OP_ELSE>>
    \o push_int(to_self_delay) \o <<OP_CSV, OP_DROP>>
    \o push_key(local_delayedpubkey) \o <<OP_ENDIF, OP_CHECKSIG>>

\* WitnessScript::to_p2wsh: version 0 and the 32-byte script hash.
to_p2wsh(script) == <<0, 32, Absorb(11, script)>>

\* PublicKey::wpubkey_hash: version 0 and the 20-byte key hash.
wpubkey_hash(key) == <<0, 20, Absorb(13, serialize(key))>>

NoWitnessScript == << >>

\* <(TxOut, psbt::Output)>::ln_to_local
ln_to_local(amount, revocationkey, local_delayedpubkey, to_self_delay) ==
    LET witness_script ==
            LockScript_ln_to_local(revocationkey, local_delayedpubkey,
                                   to_self_delay)
    IN  [value |-> amount,
         script_pubkey |-> to_p2wsh(witness_script),
         witness_script |-> witness_script]

\* <(TxOut, psbt::Output)>::ln_to_remote_v1
ln_to_remote_v1(amount, remote_pubkey) ==
    [value |-> amount,
     script_pubkey |-> wpubkey_hash(remote_pubkey),
     witness_script |-> NoWitnessScript]

\* ------------------------------------------------------------------ apply
\* `as u32`: the low four bytes.
as_u32(n) == n % (LowBytesMask(4) + 1)

\* Variant of lock_time that keeps all four bytes of the number.
lock_time_unmasked(obscured_commitment) ==
    32 * (LowBytesMask(3) + 1) + as_u32(obscured_commitment)

\* apply: (0x20u32 << 24) | (obscured_commitment as u32 & 0x00_FF_FF_FF)
lock_time(obscured_commitment) ==
    32 * (LowBytesMask(3) + 1)
    + BitAnd(as_u32(obscured_commitment), LowBytesMask(3))

\* apply: (0x80u32 << 24) | (obscured_commitment as u32 & 0x00_FF_FF_FF)
sequence(obscured_commitment) ==
    128 * (LowBytesMask(3) + 1)
    + BitAnd(as_u32(obscured_commitment), LowBytesMask(3))

\* The outputs apply() pushes once both amounts are known.
cmt_outs_of(c, rev, remote_value, local_value) ==
    (IF c.remote_amount_msat > 0
     THEN <<ln_to_local(remote_value, rev,
                        c.remote_keys.delayed_payment_basepoint,
                        c.remote_params.to_self_delay)>>
     ELSE << >>)
    \o (IF c.local_amount_msat > 0
        THEN <<ln_to_remote_v1(local_value, c.local_keys.payment_basepoint)>>
        ELSE << >>)

\* Variant of apply that pushes onto the outputs already in the template.
apply_keeping_outs(c, tx) ==
    LET obscured_commitment == obscured_commitment_number(c)
        rev == revocationpubkey(c)
        fee == refund_fee(c)
        local_fee == IF c.direction = Outbount THEN fee ELSE 0
        remote_fee == IF c.direction = Outbount THEN 0 ELSE fee
        head == [cmt_version |-> 2,
                 cmt_locktime |-> lock_time(obscured_commitment),
                 cmt_sequence |-> sequence(obscured_commitment),
                 cmt_outs |-> tx.cmt_outs]
    IN  IF ~rev.ok THEN {[tx |-> tx, result |-> "Panic"]}
        ELSE { IF ~(r.ok /\ l.ok)
               THEN [tx |-> head, result |-> "Panic"]
               ELSE [tx |-> [head EXCEPT !.cmt_outs =
                                @ \o cmt_outs_of(c, rev.key, r.v, l.v)],
                     result |-> "Ok"] :
               r \in (IF c.remote_amount_msat > 0
                      THEN u64_sub(c.remote_amount_msat \div 1000, remote_fee)
                      ELSE {[ok |-> TRUE, v |-> 0]}),
               l \in (IF c.local_amount_msat > 0
                      THEN u64_sub(c.local_amount_msat \div 1000, local_fee)
                      ELSE {[ok |-> TRUE, v |-> 0]}) }

\* Core::apply.  The result is the set of outcomes the builds can produce: a
\* subtraction that underflows panics (leaving the template as far as it was
\* filled) or wraps.
apply(c, tx) ==
    LET obscured_commitment == obscured_commitment_number(c)
        rev == revocationpubkey(c)
        fee == refund_fee(c)
        local_fee == IF c.direction = Outbount THEN fee ELSE 0
        remote_fee == IF c.direction = Outbount THEN 0 ELSE fee
        head == [cmt_version |-> 2,
                 cmt_locktime |-> lock_time(obscured_commitment),
                 cmt_sequence |-> sequence(obscured_commitment),
                 cmt_outs |-> << >>]
    IN  IF ~rev.ok THEN {[tx |-> tx, result |-> "Panic"]}
        ELSE { IF ~r.ok
               THEN [tx |-> head, result |-> "Panic"]
               ELSE IF ~l.ok
               THEN [tx |-> [head EXCEPT !.cmt_outs =
                                cmt_outs_of([c EXCEPT !.local_amount_msat = 0],
                                            rev.key, r.v, 0)],
                     result |-> "Panic"]
               ELSE [tx |-> [head EXCEPT !.cmt_outs =
                                cmt_outs_of(c, rev.key, r.v, l.v)],
                     result |-> "Ok"] :
               r \in (IF c.remote_amount_msat > 0
                      THEN u64_sub(c.remote_amount_msat \div 1000, remote_fee)
                      ELSE {[ok |-> TRUE, v |-> 0]}),
               l \in (IF c.local_amount_msat > 0
                      THEN u64_sub(c.local_amount_msat \div 1000, local_fee)
                      ELSE {[ok |-> TRUE, v |-> 0]}) }

\* ChannelExtension::apply called on the channel's template.
Apply ==
    /\ Running
    /\ \E o \in apply(core, tx_graph) :
          /\ tx_graph' = o.tx
          /\ last' = [op |-> "apply",
                      msg |-> [kind |-> "Apply",
                               cmt_outs |-> tx_graph.cmt_outs],
                      result |-> o.result, out |-> NoOut]
    /\ UNCHANGED <<core, funding_amount, negotiated, pure>>

\* The channel driven through the open/accept handshake with apply() called
\* at any point.
NextApply ==
    \/ ReceiveOpenChannel
    \/ ReceiveAcceptChannel
    \/ ComposeOpenChannel
    \/ Apply

SpecApply == Init /\ [][NextApply]_vars

\* ------------------------------------------------------------------ C13
IsToLocal(out) ==
    /\ out.witness_script # NoWitnessScript
    /\ Head(out.witness_script) = OP_IF
    /\ out.script_pubkey = to_p2wsh(out.witness_script)

IsToRemote(out) ==
    /\ out.witness_script = NoWitnessScript
    /\ out.script_pubkey = wpubkey_hash(core.local_keys.payment_basepoint)

Applied == last.op = "apply" /\ last.result = "Ok"

\* C13: after apply() returns, the template has version 2 and holds exactly
\* the outputs of this call, at most two: the counterparty's to_local output
\* iff remote_amount_msat > 0, the own to_remote output iff
\* local_amount_msat > 0, to_local first; whatever outputs the template held
\* before the call are gone.
C13_ApplyFillsFixedShape ==
    Applied =>
        LET outs == tx_graph.cmt_outs
            has_local == core.remote_amount_msat > 0
            has_remote == core.local_amount_msat > 0
        IN  /\ tx_graph.cmt_version = 2
            /\ Len(outs) <= 2
            /\ Len(outs) = (IF has_local THEN 1 ELSE 0)
                           + (IF has_remote THEN 1 ELSE 0)
            /\ has_local => IsToLocal(outs[1])
            /\ has_remote => IsToRemote(outs[Len(outs)])

C13_Witness ==
    /\ Applied
    /\ Len(last.msg.cmt_outs) = 2
    /\ Len(tx_graph.cmt_outs) = 2
    /\ IsToLocal(tx_graph.cmt_outs[1])
    /\ IsToRemote(tx_graph.cmt_outs[2])

\* ------------------------------------------------------------------ C14
\* C14: after apply() the refund fee is subtracted from the funding
\* initiator's side only: outbound, the own to_remote output is worth
\* local_amount_msat/1000 - fee and the to_local output remote_amount_msat/1000;
\* inbound, the to_local output is worth remote_amount_msat/1000 - fee and the
\* own output local_amount_msat/1000.
C14_FeePaidByInitiator ==
    Applied =>
        LET outs == tx_graph.cmt_outs
            fee == refund_fee(core)
            to_local_value ==
                (core.remote_amount_msat \div 1000)
                - (IF core.direction = Outbount THEN 0 ELSE fee)
            to_remote_value ==
                (core.local_amount_msat \div 1000)
                - (IF core.direction = Outbount THEN fee ELSE 0)
        IN  /\ core.remote_amount_msat > 0 => outs[1].value = to_local_value
            /\ core.local_amount_msat > 0
                  => outs[Len(outs)].value = to_remote_value

\* ------------------------------------------------------------------ C15
ComposedWithoutPush(l) ==
    /\ l.op = "compose_open_channel"
    /\ l.result = "Ok"
    /\ l.msg.push_msat = 0

\* C15: a successful compose_open_channel with push_msat = 0 and
\* funding_satoshis = F leaves the channel outbound with
\* local_amount_msat = F*1000 and remote_amount_msat = 0, and an apply()
\* that follows it yields exactly one output.
C15_UnpushedFundingGivesOneOutput ==
    [][/\ ComposedWithoutPush(last') =>
             /\ core'.direction = Outbount
             /\ core'.local_amount_msat = last'.msg.funding_sat * 1000
             /\ core'.remote_amount_msat = 0
       /\ (ComposedWithoutPush(last) /\ last'.op = "apply"
              /\ last'.result = "Ok")
             => Len(tx_graph'.cmt_outs) = 1]_vars

\* ================================================= wire codec (primitives)
u16_MAX == 65535

\* u16::to_be_bytes
u16_to_be_bytes(count) == <<count \div 256, count % 256>>

\* u16::from_be_bytes
u16_from_be_bytes(buf) == buf[1] * 256 + buf[2]

\* Variant of the usize encoder without the size check.
usize_lightning_encode_unchecked(n) ==
    LET bytes == u16_to_be_bytes(n % (u16_MAX + 1))
    IN  [result |-> "Ok", sink |-> bytes, written |-> Len(bytes)]

\* <usize as LightningEncode>::lightning_encode into an empty sink.
usize_lightning_encode(n) ==
    IF n > u16_MAX
    THEN [result |-> "TooLargeData", sink |-> << >>, written |-> 0]
    ELSE LET bytes == u16_to_be_bytes(n % (u16_MAX + 1))
         IN  [result |-> "Ok", sink |-> bytes, written |-> Len(bytes)]

\* <usize as LightningDecode>::lightning_decode; `rest` is what the reader
\* has left.
usize_lightning_decode(d) ==
    IF Len(d) < 2
    THEN [result |-> "Io", value |-> 0, rest |-> d]
    ELSE [result |-> "Ok", value |-> u16_from_be_bytes(SubSeq(d, 1, 2)),
          rest |-> SubSeq(d, 3, Len(d))]

\* Vec<u8>::lightning_decode: a length, then that many bytes.
Vec_u8_lightning_decode(d) ==
    LET len == usize_lightning_decode(d)
    IN  IF len.result # "Ok" THEN len
        ELSE IF Len(len.rest) < len.value
        THEN [result |-> "Io", value |-> 0, rest |-> << >>]
        ELSE [result |-> "Ok", value |-> SubSeq(len.rest, 1, len.value),
              rest |-> SubSeq(len.rest, len.value + 1, Len(len.rest))]

\* <FlagVec as LightningDecode>::lightning_decode
FlagVec_lightning_decode(d) == Vec_u8_lightning_decode(d)

FlagVec_default == << >>

\* Variant of lightning_deserialize that ignores what the decoder left.
FlagVec_lightning_deserialize_lenient(data) ==
    IF data = << >> THEN [result |-> "Ok", value |-> FlagVec_default]
    ELSE LET rv == FlagVec_lightning_decode(data)
         IN  [result |-> rv.result, value |-> rv.value]

\* <FlagVec as LightningDecode>::lightning_deserialize
FlagVec_lightning_deserialize(data) ==
    IF data = << >> THEN [result |-> "Ok", value |-> FlagVec_default]
    ELSE LET rv == FlagVec_lightning_decode(data)
             consumed == Len(data) - Len(rv.rest)
         IN  IF rv.result # "Ok" THEN [result |-> rv.result, value |-> << >>]
             ELSE IF consumed = Len(data)
             THEN [result |-> "Ok", value |-> rv.value]
             ELSE [result |-> "DataNotEntirelyConsumed", value |-> << >>]

\* ---------------------------------------------------- wire codec (bitcoin)
\* bitcoin::VarInt of a length, little-endian after the marker byte.
VarInt(n) ==
    IF n < 253 THEN <<n>>
    ELSE IF n <= u16_MAX THEN <<253, n % 256, n \div 256>>
    ELSE <<254, n % 256, (n \div 256) % 256, (n \div 65536) % 256,
           n \div 16777216>>

\* consensus::serialize(&Vec<u8>)
consensus_serialize(buf) == VarInt(Len(buf)) \o buf

\* consensus::deserialize::<Script>: a VarInt length, that many bytes, and
\* nothing after them.
consensus_deserialize(bytes) ==
    LET marker == IF bytes = << >> THEN 0 ELSE Head(bytes)
        width == IF marker < 253 THEN 1 ELSE IF marker = 253 THEN 3 ELSE 5
        len == IF Len(bytes) < width THEN 0
               ELSE IF width = 1 THEN marker
               ELSE IF width = 3 THEN bytes[2] + 256 * bytes[3]
               ELSE bytes[2] + 256 * bytes[3] + 65536 * bytes[4]
                    + 16777216 * bytes[5]
    IN  IF bytes = << >> \/ Len(bytes) # width + len
        THEN [result |-> "DataIntegrityError", script |-> << >>]
        ELSE [result |-> "Ok", script |-> SubSeq(bytes, width + 1, Len(bytes))]

\* Variant of the Script encoder that writes a 16-bit length before the bytes.
Script_lightning_encode_prefixed(script) ==
    [result |-> "Ok", sink |-> u16_to_be_bytes(Len(script)) \o script,
     written |-> Len(script)]

\* <Script as LightningEncode>::lightning_encode into an empty sink.
Script_lightning_encode(script) ==
    [result |-> "Ok", sink |-> script, written |-> Len(script)]

\* <Script as LightningDecode>::lightning_decode: the reader is drained.
Script_lightning_decode(d) ==
    LET buf == d
        bytes == consensus_serialize(buf)
        r == consensus_deserialize(bytes)
    IN  [result |-> r.result, value |-> r.script, rest |-> << >>]

\* PubkeyScript::lightning_deserialize (strategy AsWrapped): the inner
\* Script is decoded from a cursor that must end up at the end of the data.
PubkeyScript_lightning_deserialize(data) ==
    LET rv == Script_lightning_decode(data)
    IN  IF rv.result # "Ok" THEN [result |-> rv.result, value |-> << >>]
        ELSE IF rv.rest = << >> THEN [result |-> "Ok", value |-> rv.value]
        ELSE [result |-> "DataNotEntirelyConsumed", value |-> << >>]

\* PubkeyScript::lightning_serialize (strategy AsWrapped): the inner Script
\* encoded into a fresh vector.
PubkeyScript_lightning_serialize(script) == Script_lightning_encode(script)

\* ======================================= calls of the stateless functions
\* Each behaviour of SpecPure is one call of one function on one input.
MaxWire == 4

PaymentBasepoints == 0..5
Counters == {0, 1, 77, LowBytesMask(6), LowBytesMask(6) + 6}
FundingKeys == 0..6
Lengths == {0, 1, 255, 256, 513, 65535, 65536, 65537, 131072}
WireBytes == {0, 1, 2, 253}
WireStrings == UNION {[1..n -> WireBytes] : n \in 0..MaxWire}

Opposite(direction) == IF direction = Inbound THEN Outbount ELSE Inbound

\* A core with the fields obscured_commitment_number reads.
CoreOf(direction, local, remote, number) ==
    [Core_default EXCEPT !.direction = direction,
                         !.local_keys.payment_basepoint = local,
                         !.remote_keys.payment_basepoint = remote,
                         !.commitment_number = number]

channel_vars == <<core, funding_amount, last, negotiated, tx_graph>>

\* Core::obscured_commitment_number on a channel of one side.
ObscureCommitmentNumber ==
    /\ pure = NoPure
    /\ \E direction \in {Inbound, Outbount},
          local \in PaymentBasepoints, remote \in PaymentBasepoints,
          number \in Counters :
          pure' = [fn |-> "obscured_commitment_number",
                   direction |-> direction, local |-> local,
                   remote |-> remote, number |-> number,
                   obscured |-> obscured_commitment_number(
                                  CoreOf(direction, local, remote, number))]
    /\ UNCHANGED channel_vars

\* LockScript::ln_funding
LnFunding ==
    /\ pure = NoPure
    /\ \E local \in FundingKeys, remote \in FundingKeys :
          pure' = [fn |-> "ln_funding", local |-> local, remote |-> remote,
                   script |-> LockScript_ln_funding(local, remote)]
    /\ UNCHANGED channel_vars

\* A length is encoded and, when that succeeds, decoded from what was
\* written.
EncodeLength ==
    /\ pure = NoPure
    /\ \E n \in Lengths :
          LET e == usize_lightning_encode(n)
          IN  pure' = [fn |-> "usize_encode", n |-> n, result |-> e.result,
                       sink |-> e.sink, written |-> e.written,
                       decoded |-> IF e.result = "Ok"
                                   THEN usize_lightning_decode(e.sink)
                                   ELSE [result |-> "None", value |-> 0,
                                         rest |-> << >>]]
    /\ UNCHANGED channel_vars

\* FlagVec::lightning_deserialize
DeserializeFlagVec ==
    /\ pure = NoPure
    /\ \E data \in WireStrings :
          LET r == FlagVec_lightning_deserialize(data)
          IN  pure' = [fn |-> "FlagVec_deserialize", data |-> data,
                       result |-> r.result, value |-> r.value]
    /\ UNCHANGED channel_vars

\* PubkeyScript::lightning_deserialize followed, when it succeeds, by
\* lightning_serialize of the decoded script.
DeserializePubkeyScript ==
    /\ pure = NoPure
    /\ \E data \in WireStrings :
          LET r == PubkeyScript_lightning_deserialize(data)
          IN  pure' = [fn |-> "PubkeyScript_deserialize", data |-> data,
                       result |-> r.result, value |-> r.value,
                       serialized |->
                           IF r.result = "Ok"
                           THEN PubkeyScript_lightning_serialize(r.value)
                           ELSE [result |-> "None", sink |-> << >>,
                                 written |-> 0]]
    /\ UNCHANGED channel_vars

\* compute_obscuring_factor: the free function next to the script
\* generators.
compute_obscuring_factor(direction, local_payment_basepoint, remote_payment_basepoint) ==
    LET engine ==
            IF direction = Inbound
            THEN serialize(local_payment_basepoint)
                 \o serialize(remote_payment_basepoint)
            ELSE serialize(remote_payment_basepoint)
                 \o serialize(local_payment_basepoint)
        obscuring_hash == sha256(engine)
        buf == SubSeq(obscuring_hash, 25, 32)
    IN  from_be_bytes(buf)

\* compute_obscuring_factor called with a direction and two basepoints.
ComputeObscuringFactor ==
    /\ pure = NoPure
    /\ \E direction \in {Inbound, Outbount},
          local \in PaymentBasepoints, remote \in PaymentBasepoints :
          pure' = [fn |-> "compute_obscuring_factor",
                   direction |-> direction, local |-> local,
                   remote |-> remote,
                   factor |-> compute_obscuring_factor(direction, local,
                                                       remote)]
    /\ UNCHANGED channel_vars

RevocationBasepoints == 0..7
PerCommitmentPoints == 0..7

\* A core holding the counterparty keys revocationpubkey reads.
CoreWithRemoteKeys(revocation_basepoint, per_commitment_point) ==
    [Core_default EXCEPT
        !.remote_keys.revocation_basepoint = revocation_basepoint,
        !.remote_per_commitment_point = per_commitment_point]

\* ChannelExtension::apply on a channel whose counterparty sent the given
\* revocation basepoint and per-commitment point.
ApplyWithRemoteKeys ==
    /\ pure = NoPure
    /\ \E revocation_basepoint \in RevocationBasepoints,
          per_commitment_point \in PerCommitmentPoints :
          LET c == CoreWithRemoteKeys(revocation_basepoint,
                                      per_commitment_point)
          IN  \E o \in apply(c, TxGraph_default) :
                 pure' = [fn |-> "apply",
                          revocation_basepoint |-> revocation_basepoint,
                          per_commitment_point |-> per_commitment_point,
                          derived |-> revocationpubkey(c).ok,
                          result |-> o.result,
                          cmt_version |-> o.tx.cmt_version]
    /\ UNCHANGED channel_vars

\* <Script as LightningDecode>::lightning_decode on a stream, and the
\* encoding of the decoded script.
DecodeScript ==
    /\ pure = NoPure
    /\ \E data \in WireStrings :
          LET r == Script_lightning_decode(data)
          IN  pure' = [fn |-> "Script_decode", data |-> data,
                       result |-> r.result, value |-> r.value,
                       rest |-> r.rest,
                       encoded |-> IF r.result = "Ok"
                                   THEN Script_lightning_encode(r.value).sink
                                   ELSE << >>]
    /\ UNCHANGED channel_vars

NextPure ==
    \/ ObscureCommitmentNumber
    \/ LnFunding
    \/ EncodeLength
    \/ DeserializeFlagVec
    \/ DeserializePubkeyScript
    \/ ApplyWithRemoteKeys
    \/ DecodeScript
    \/ ComputeObscuringFactor

SpecPure == Init /\ [][NextPure]_vars

\* ------------------------------------------------------------------ C16
\* The obscuring factor a side computes: the obscured value of counter 0.
FactorOf(direction, local, remote) ==
    obscured_commitment_number(CoreOf(direction, local, remote, 0))

\* C16: for a commitment counter below 2^48, the counterparty (opposite
\* direction, local and remote payment basepoints swapped) computes the same
\* obscuring factor, and XOR-ing the obscured number with it gives the
\* counter back.
C16_ObscuredNumberReconstructible ==
    (pure.fn = "obscured_commitment_number" /\ pure.number <= LOWER_48_BITS) =>
        LET mine == FactorOf(pure.direction, pure.local, pure.remote)
            theirs == FactorOf(Opposite(pure.direction), pure.remote,
                               pure.local)
        IN  /\ mine = theirs
            /\ Xor(pure.obscured, theirs) = pure.number

C16_Witness ==
    /\ pure.fn = "obscured_commitment_number"
    /\ pure.number = 77
    /\ pure.local # pure.remote
    /\ pure.obscured # pure.number
    /\ FactorOf(pure.direction, pure.local, pure.remote)
          # FactorOf(pure.direction, pure.remote, pure.local)

\* ------------------------------------------------------------------ C17
\* C17: ln_funding gives the same script whichever key is passed as local:
\* the 2-of-2 multisig script over the two keys in lexicographic order of
\* their serialization.
C17_FundingScriptSymmetric ==
    pure.fn = "ln_funding" =>
        LET lo == IF LexLeq(serialize(pure.local), serialize(pure.remote))
                  THEN pure.local ELSE pure.remote
            hi == IF lo = pure.local THEN pure.remote ELSE pure.local
        IN  /\ pure.script = LockScript_ln_funding(pure.remote, pure.local)
            /\ pure.script = <<82, 33>> \o serialize(lo) \o <<33>>
                             \o serialize(hi) \o <<82, OP_CHECKMULTISIG>>

C17_Witness ==
    /\ pure.fn = "ln_funding"
    /\ pure.local < pure.remote
    /\ ~LexLeq(serialize(pure.local), serialize(pure.remote))

\* ------------------------------------------------------------------ C18
\* C18: a length n <= 65535 is encoded as its two big-endian bytes, the
\* encoder reports 2 bytes and decoding them returns n; a larger n fails with
\* TooLargeData and nothing is written.
C18_LengthPrefixIsSixteenBits ==
    pure.fn = "usize_encode" =>
        IF pure.n <= 65535
        THEN /\ pure.result = "Ok"
             /\ pure.sink = <<pure.n \div 256, pure.n % 256>>
             /\ pure.written = 2
             /\ pure.decoded.result = "Ok"
             /\ pure.decoded.value = pure.n
        ELSE /\ pure.result = "TooLargeData"
             /\ pure.sink = << >>

C18_Witness ==
    pure.fn = "usize_encode" /\ pure.n = 65535 /\ pure.sink = <<255, 255>>

C18_WitnessTooLarge ==
    pure.fn = "usize_encode" /\ pure.n = 65536 /\ pure.result = "TooLargeData"

\* ------------------------------------------------------------------ C19
\* The length a byte string declares in its first two bytes.
Declared(data) == data[1] * 256 + data[2]

\* C19: deserializing a length-prefixed value succeeds only when the bytes
\* are consumed exactly: bytes left over after the declared length give
\* DataNotEntirelyConsumed, and fewer bytes than declared fail too.
C19_DeserializeConsumesExactly ==
    pure.fn = "FlagVec_deserialize" =>
        LET exact == \/ pure.data = << >>
                     \/ /\ Len(pure.data) >= 2
                        /\ Len(pure.data) = 2 + Declared(pure.data)
        IN  /\ pure.result = "Ok" <=> exact
            /\ (Len(pure.data) >= 2
                    /\ Len(pure.data) > 2 + Declared(pure.data))
                  => pure.result = "DataNotEntirelyConsumed"
            /\ pure.result = "Ok"
                  => pure.value = SubSeq(pure.data, 3, Len(pure.data))

C19_Witness ==
    /\ pure.fn = "FlagVec_deserialize"
    /\ pure.data = <<0, 1, 2, 2>>
    /\ pure.result = "DataNotEntirelyConsumed"

C19_WitnessTruncated ==
    /\ pure.fn = "FlagVec_deserialize"
    /\ pure.data = <<0, 2, 1>>
    /\ pure.result = "Io"

\* ------------------------------------------------------------------ C20
\* C20: whenever PubkeyScript::lightning_deserialize accepts a byte string,
\* serializing the decoded script gives the same byte string back.
C20_ScriptRoundTrip ==
    (pure.fn = "PubkeyScript_deserialize" /\ pure.result = "Ok") =>
        /\ pure.serialized.result = "Ok"
        /\ pure.serialized.sink = pure.data

C20_Witness ==
    /\ pure.fn = "PubkeyScript_deserialize"
    /\ pure.result = "Ok"
    /\ pure.data = <<0, 2, 0, 253>>
    /\ pure.serialized.sink = <<0, 2, 0, 253>>

\* ------------------------------------------------------------------ C21
\* C21: no call changes the chain_hash the channel was constructed with, and
\* a composed open_channel message carries that chain_hash.
C21_ChainHashImmutable ==
    [][/\ core'.chain_hash = core.chain_hash
       /\ (last'.op = "compose_open_channel" /\ last'.result = "Ok")
             => last'.out.chain_hash = core.chain_hash]_vars

C21_Witness ==
    /\ ReceivedOk("OpenChannel")
    /\ last.msg.chain_hash # core.chain_hash
    /\ core.chain_hash \in ChainHashes

\* ------------------------------------------------------------------ C22
\* C22: when a tweak or the point combination of the revocation key
\* derivation fails, apply() returns an error: it neither panics nor reports
\* success.
C22_DerivationFailureIsAnError ==
    (pure.fn = "apply" /\ ~pure.derived) => pure.result \notin {"Panic", "Ok"}

\* ------------------------------------------------------------------ C23
\* C23: a Script is encoded as its 16-bit length followed by its bytes, and
\* decoding reads the length and exactly that many bytes, leaving the rest of
\* the stream unread.
C23_ScriptIsLengthPrefixed ==
    (pure.fn = "Script_decode" /\ Len(pure.data) >= 2
        /\ Len(pure.data) >= 2 + Declared(pure.data)) =>
        LET len == Declared(pure.data)
        IN  /\ pure.result = "Ok"
            /\ pure.value = SubSeq(pure.data, 3, 2 + len)
            /\ pure.rest = SubSeq(pure.data, 3 + len, Len(pure.data))
            /\ pure.encoded = <<len \div 256, len % 256>> \o pure.value

\* ------------------------------------------------------------------ C24
\* The last eight bytes of SHA256 over the two payment basepoints, read as a
\* big-endian number; the remote basepoint comes first on an inbound channel.
DigestTail(direction, local, remote) ==
    LET digest == IF direction = Inbound
                  THEN sha256(serialize(remote) \o serialize(local))
                  ELSE sha256(serialize(local) \o serialize(remote))
    IN  digest[25] * ByteBase ^ 7 + digest[26] * ByteBase ^ 6
        + digest[27] * ByteBase ^ 5 + digest[28] * ByteBase ^ 4
        + digest[29] * ByteBase ^ 3 + digest[30] * ByteBase ^ 2
        + digest[31] * ByteBase + digest[32]

\* 2^48: six bytes.
TwoTo48 == ByteBase ^ 6

\* C24: the obscured commitment number is the counter masked to 48 bits XOR
\* the obscuring factor, which is the big-endian value of the last 8 digest
\* bytes masked to 48 bits, with the operands hashed as (remote, local) when
\* inbound and (local, remote) otherwise; the result is below 2^48.
C24_ObscuringFactorDefinition ==
    pure.fn = "obscured_commitment_number" =>
        LET factor == DigestTail(pure.direction, pure.local, pure.remote)
                      % TwoTo48
        IN  /\ pure.obscured = Xor(pure.number % TwoTo48, factor)
            /\ pure.obscured < TwoTo48

C24_Witness ==
    /\ pure.fn = "obscured_commitment_number"
    /\ pure.direction = Inbound
    /\ pure.number >= TwoTo48
    /\ DigestTail(pure.direction, pure.local, pure.remote) >= TwoTo48
    /\ DigestTail(pure.direction, pure.local, pure.remote)
          # DigestTail(Outbount, pure.local, pure.remote)

\* ------------------------------------------------------------------ C25
\* 2^24: three bytes.
TwoTo24 == ByteBase ^ 3

\* C25: apply() sets locktime = 0x20<<24 | (obscured & 0x00FFFFFF) and
\* sequence = 0x80<<24 | (obscured & 0x00FFFFFF): the top byte is 0x20,
\* respectively 0x80, and both carry the low 24 bits of the obscured number.
C25_LocktimeAndSequencePacking ==
    Applied =>
        LET low == obscured_commitment_number(core) % TwoTo24
        IN  /\ tx_graph.cmt_locktime = 32 * TwoTo24 + low
            /\ tx_graph.cmt_sequence = 128 * TwoTo24 + low
            /\ tx_graph.cmt_locktime \div TwoTo24 = 32
            /\ tx_graph.cmt_sequence \div TwoTo24 = 128
            /\ tx_graph.cmt_locktime % TwoTo24 = tx_graph.cmt_sequence % TwoTo24

C25_Witness ==
    /\ Applied
    /\ obscured_commitment_number(core) >= TwoTo24
    /\ tx_graph.cmt_locktime % TwoTo24 # 0
    /\ Len(tx_graph.cmt_outs) = 2

\* ------------------------------------------------------------------ C26
\* C26: in every reachable state a stage of Initial or Reestablishing comes
\* with a Temporary channel id, so the compose functions, which pass their
\* stage check exactly in these stages, always find the temporary id.
C26_InitialStageHasTemporaryId ==
    /\ core.stage \in {"Initial", "Reestablishing"}
          => core.active_channel_id.tag = "Temporary"
    /\ compose_allowed(core) => temp_channel_id(core).some

C26_Witness ==
    /\ last.op = "compose_accept_channel"
    /\ last.result = "Ok"
    /\ core.stage = "Initial"
    /\ core.direction = Outbount
    /\ core.local_amount_msat > 0
    /\ last.out.temporary_channel_id = core.active_channel_id.id

\* ------------------------------------------------------------------ C27
\* The funding amount of the call that last stored the channel amounts.
StoredFunding ==
    IF last.op = "compose_open_channel" THEN last.msg.funding_sat
    ELSE last.msg.funding_satoshis

AmountsStored ==
    \/ last.op = "update_from_peer" /\ last.msg.kind = "OpenChannel"
    \/ last.op = "compose_open_channel" /\ last.result # "LifecycleMismatch"

\* C27: the amounts stored by update_from_peer(open_channel) and by
\* compose_open_channel are computed without overflow or underflow: the call
\* does not panic and neither amount exceeds funding_satoshis*1000.
C27_AmountsComputedWithoutOverflow ==
    AmountsStored =>
        /\ last.result # "Panic"
        /\ core.local_amount_msat <= StoredFunding * 1000
        /\ core.remote_amount_msat <= StoredFunding * 1000

\* ------------------------------------------------------------------ C28
\* The amount, in satoshis, of the side that pays the refund fee.
PayerSats ==
    IF core.direction = Outbount
    THEN core.local_amount_msat \div 1000
    ELSE core.remote_amount_msat \div 1000

\* C28: apply() computes every output value without underflow: when the
\* fee-paying side has an output its amount_msat/1000 is at least the refund
\* fee, the call does not panic, and no output is worth more than its side's
\* balance in satoshis.
C28_OutputValuesWithoutUnderflow ==
    last.op = "apply" =>
        /\ PayerSats > 0 => PayerSats >= refund_fee(core)
        /\ last.result # "Panic"
        /\ \A i \in 1..Len(tx_graph.cmt_outs) :
              tx_graph.cmt_outs[i].value
                 <= IF IsToLocal(tx_graph.cmt_outs[i])
                    THEN core.remote_amount_msat \div 1000
                    ELSE core.local_amount_msat \div 1000

\* ------------------------------------------------------------------ C29
\* C29: after a funding_created message is processed, the core's funding
\* outpoint is the (funding txid, output index) pair of the message, from
\* which the final channel id was derived.
C29_FundingOutpointRecorded ==
    ReceivedOk("FundingCreated") =>
        /\ core.funding_outpoint.txid = last.msg.funding_txid
        /\ core.funding_outpoint.vout = last.msg.funding_output_index
        /\ core.active_channel_id
              = ActiveChannelId_with(core.funding_outpoint.txid,
                                     core.funding_outpoint.vout)

\* ------------------------------------------------------------------ C30
\* C30: for every direction and pair of payment basepoints,
\* compute_obscuring_factor returns the obscuring factor that
\* Core::obscured_commitment_number uses.
C30_ObscuringFactorsAgree ==
    pure.fn = "compute_obscuring_factor" =>
        pure.factor = FactorOf(pure.direction, pure.local, pure.remote)

====
